---- MODULE Spec2Model ----
(***************************************************************************)
(* Swaption vol table builder (src/src/modules/swaption_vol_table.py).     *)
(*                                                                         *)
(* A DataFrame of observations holds at most one row per instrument key    *)
(* and date; it is modelled as a function  key -> (date -> cell)  where a  *)
(* cell is NoRow (no observation) or <<v>> (an observation of value v).    *)
(* Dates are the integers 1..MaxDate.  A number that may be NaN is <<>>    *)
(* (NaN) or <<x>>.  Implied vols are integers (bp), rates are integers     *)
(* (percent).  A value x / sqrt(252) is kept as the pair [num, root]; the  *)
(* square of an annualized realized vol is kept as ann * num / den in the  *)
(* record [num, den, ann].                                                 *)
(*                                                                         *)
(* Assumed of the inputs: every observation carries a number (no NaN       *)
(* values), and a key has at most one observation per date.                *)
(*                                                                         *)
(* The module get_swaption_table.py (load-once caches, date validation,    *)
(* then the builder) is modelled by the variables vol_data_cache,          *)
(* swap_rates_cache and loader_calls; pc names the function called last    *)
(* and log holds the outcomes a caller has kept.  The row order inside an  *)
(* observation set is not represented.                                     *)
(***************************************************************************)
EXTENDS Integers, Sequences, FiniteSets, TLC

VARIABLES vol_data, swap_rates, as_of_date, implied_df, realized_df, table, edit,
          vol_data_cache, swap_rates_cache, loader_calls, pc, log, calc

vars == <<vol_data, swap_rates, as_of_date, implied_df, realized_df, table, edit,
          vol_data_cache, swap_rates_cache, loader_calls, pc, log, calc>>

\* the module-level state of get_swaption_table.py
service == <<vol_data_cache, swap_rates_cache, loader_calls>>

(***************************************************************************)
(* Bounds of the model.                                                    *)
(***************************************************************************)
MaxDate == 216      \* last date of the observation universe
EarlyDays == 8      \* as-of-dates 0..EarlyDays are queried (short histories)
SweepDays == 40     \* as-of-dates MaxDate-SweepDays..MaxDate+1 are queried
EditSpan == 1       \* an edit touches a date within EditSpan of the as-of-date
MaxCalls == 4       \* calls made one after the other on the same observation sets
MaxLoads == 3       \* passes of _load_data through its loading branch
MaxLen == 6         \* longest rate history handed to a function on its own
MaxSheetRows == 3   \* rows of a SOFR sheet
RecordSpan == 40    \* dates of implied rows in a list of records
RateSpan == 200     \* dates of rate rows in a list of records
MaxShift == 3       \* rows of a list moved from its front to its end

Dates == 1..MaxDate

AsOfDates == (0..EarlyDays) \cup ((MaxDate - SweepDays)..(MaxDate + 1))

(***************************************************************************)
(* Configuration (src/src/config.py).                                      *)
(***************************************************************************)
OPTION_TENORS == <<"1M", "3M", "6M", "1Y", "2Y">>
SWAP_TENORS == <<2, 5, 10, 30>>
TRADING_DAYS_PER_YEAR == 252

REALIZED_VOL_WINDOWS == <<10, 20, 60, 90, 120, 180>>

(***************************************************************************)
(* Numbers, NaN, small helpers.                                            *)
(***************************************************************************)
NaN == <<>>
NoRow == <<>>

IsRow(c) == c # NoRow

Range(s) == {s[i] : i \in DOMAIN s}

Abs(x) == IF x < 0 THEN -x ELSE x

Max(S) == CHOOSE x \in S : \A y \in S : y <= x

Min(S) == CHOOSE x \in S : \A y \in S : x <= y

\* python's abs() of a float that may be NaN
AbsOpt(a) == IF a = NaN THEN NaN ELSE <<Abs(a[1])>>

(***************************************************************************)
(* Series extraction: boolean-mask filter, groupby, set_index/sort_index.  *)
(***************************************************************************)
\* variant: no date filter
FilterByDate_KeepAll(df, d) == df

\* variant: the filter is applied to the caller's DataFrame in place
InputAfterFilter_InPlace(df, d) ==
    [k \in DOMAIN df |-> [dt \in Dates |-> IF dt <= d THEN df[k][dt] ELSE NoRow]]

\* the caller's DataFrame after  df = df[df['date'] <= as_of_date].copy() :
\* the statement binds the local name to a new frame, the frame passed in
\* keeps its rows
InputAfterFilter(df, d) == df

\* df[df['date'] <= as_of_date]: rows dated after d are dropped
FilterByDate(df, d) ==
    [k \in DOMAIN df |-> [dt \in Dates |-> IF dt <= d THEN df[k][dt] ELSE NoRow]]

\* the keys groupby iterates over: those with at least one row
GroupKeys(df) == {k \in DOMAIN df : \E dt \in Dates : IsRow(df[k][dt])}

\* len(group)
GroupLen(df, k) == Len(SelectSeq(df[k], IsRow))

\* group.set_index('date')[column].sort_index(): the values in date order
SeriesOf(df, k) ==
    LET rows == SelectSeq(df[k], IsRow)
    IN  [i \in 1..Len(rows) |-> rows[i][1]]

\* python's order of the expiry labels as strings (groupby sorts its keys)
LexOrder == <<"1M", "1Y", "2Y", "3M", "5Y", "6M">>

StrRank(e) == CHOOSE i \in DOMAIN LexOrder : LexOrder[i] = e

\* order of the (expiry, tenor) group keys
KeyLess(a, b) ==
    \/ StrRank(a[1]) < StrRank(b[1])
    \/ a[1] = b[1] /\ a[2] < b[2]

RECURSIVE SortedKeys(_)
SortedKeys(S) ==
    IF S = {} THEN <<>>
    ELSE LET m == CHOOSE a \in S : \A b \in S \ {a} : KeyLess(a, b)
         IN  <<m>> \o SortedKeys(S \ {m})

RECURSIVE SortedInts(_)
SortedInts(S) ==
    IF S = {} THEN <<>>
    ELSE LET m == Min(S) IN <<m>> \o SortedInts(S \ {m})

(***************************************************************************)
(* compute_implied_vol_changes                                             *)
(***************************************************************************)
\* variant: the whole series instead of its tail
Tail20_WholeSeries(vol_series) == vol_series

\* variant: the 20 values before the current one
Tail20_BeforeCurrent(vol_series) ==
    LET n == Len(vol_series)
    IN  SubSeq(vol_series, IF n > 21 THEN n - 20 ELSE 1, n - 1)

\* vol_series.tail(20)
Tail20(vol_series) ==
    LET n == Len(vol_series)
    IN  SubSeq(vol_series, IF n > 20 THEN n - 19 ELSE 1, n)

\* vol_series.iloc[-1] - vol_series.iloc[-m] if len(vol_series) >= m else nan
\* variant: one position short of iloc[-m]
PeriodChange_OneShort(vol_series, m) ==
    LET n == Len(vol_series)
    IN  IF n >= m THEN <<vol_series[n] - vol_series[n - m + 2]>> ELSE NaN

\* variant: defined only for a series of exactly m values
PeriodChange_ExactLen(vol_series, m) ==
    LET n == Len(vol_series)
    IN  IF n = m THEN <<vol_series[n] - vol_series[n - m + 1]>> ELSE NaN

PeriodChange(vol_series, m) ==
    LET n == Len(vol_series)
    IN  IF n >= m THEN <<vol_series[n] - vol_series[n - m + 1]>> ELSE NaN

\* the dict appended to results for one (expiry, tenor) group
ImpliedRow(k, vol_series) ==
    LET n == Len(vol_series)
        last_20d == Tail20(vol_series)
    IN  [expiry |-> k[1],
         tenor |-> k[2],
         implied_vol_ann_current |-> <<vol_series[n]>>,
         implied_vol_ann_1d_chg |-> PeriodChange(vol_series, 2),
         implied_vol_ann_1w_chg |-> PeriodChange(vol_series, 6),
         implied_vol_ann_1m_chg |-> PeriodChange(vol_series, 21),
         implied_vol_ann_20d_high |->
             IF Len(last_20d) > 0 THEN <<Max(Range(last_20d))>> ELSE NaN,
         implied_vol_ann_20d_low |->
             IF Len(last_20d) > 0 THEN <<Min(Range(last_20d))>> ELSE NaN]

\* variant: groups of four are kept
ImpliedGroupKept_FourEnough(df, k) == GroupLen(df, k) >= 4

\* groups shorter than this are skipped
ImpliedGroupKept(df, k) == GroupLen(df, k) >= 5

compute_implied_vol_changes(vd, d) ==
    LET filtered == FilterByDate(vd, d)
        keys == SortedKeys(GroupKeys(filtered))
        kept == SelectSeq(keys, LAMBDA k : ImpliedGroupKept(filtered, k))
    IN  [i \in 1..Len(kept) |-> ImpliedRow(kept[i], SeriesOf(filtered, kept[i]))]

(***************************************************************************)
(* compute_realized_vol                                                    *)
(***************************************************************************)
\* sum of s[lo..hi] and of its squares, by halving
RECURSIVE SumSeq(_, _, _)
SumSeq(s, lo, hi) ==
    IF lo > hi THEN 0
    ELSE IF lo = hi THEN s[lo]
    ELSE LET mid == (lo + hi) \div 2
         IN  SumSeq(s, lo, mid) + SumSeq(s, mid + 1, hi)

RECURSIVE SumSqSeq(_, _, _)
SumSqSeq(s, lo, hi) ==
    IF lo > hi THEN 0
    ELSE IF lo = hi THEN s[lo] * s[lo]
    ELSE LET mid == (lo + hi) \div 2
         IN  SumSqSeq(s, lo, mid) + SumSqSeq(s, mid + 1, hi)

\* max(windows)
MaxWindow(windows) == Max(Range(windows))

\* (rate_series - rate_series.shift(1)) * 100: the first difference is NaN
DailyChangesBp(rate_series) ==
    [i \in 1..Len(rate_series) |->
        IF i = 1 THEN NaN ELSE <<(rate_series[i] - rate_series[i - 1]) * 100>>]

\* daily_changes_bp.rolling(window, min_periods).std().iloc[-1] * np.sqrt(252):
\* the sample standard deviation (ddof = 1) of the non-null differences among
\* the trailing `window` positions, NaN when fewer than min_periods of them are
\* non-null; the result r is kept as r^2 = ann * num / den
RollingStdLast(daily_changes_bp, window, min_periods) ==
    LET n == Len(daily_changes_bp)
        trailing == SubSeq(daily_changes_bp, IF n > window THEN n - window + 1 ELSE 1, n)
        obs == SelectSeq(trailing, IsRow)
        xs == [i \in 1..Len(obs) |-> obs[i][1]]
        c == Len(xs)
        sum == SumSeq(xs, 1, c)
    IN  IF c < min_periods \/ c < 2 THEN NaN
        ELSE <<[num |-> c * SumSqSeq(xs, 1, c) - sum * sum,
                den |-> c * (c - 1),
                ann |-> 252]>>

\* variant: a window needs all its positions non-null
RealizedRow_FullWindow(tenor, rate_series, windows) ==
    LET daily_changes_bp == DailyChangesBp(rate_series)
    IN  [tenor |-> tenor,
         realized_vol |->
            [w \in Range(windows) |->
                IF Len(daily_changes_bp) >= w
                THEN RollingStdLast(daily_changes_bp, w, w)
                ELSE NaN]]

\* the row built for one tenor
RealizedRow(tenor, rate_series, windows) ==
    LET daily_changes_bp == DailyChangesBp(rate_series)
    IN  [tenor |-> tenor,
         realized_vol |->
            [w \in Range(windows) |->
                IF Len(daily_changes_bp) >= w
                THEN RollingStdLast(daily_changes_bp, w, w \div 2)
                ELSE NaN]]

\* variant: the smallest window decides
RealizedGroupKept_AnyWindow(df, tenor, windows) ==
    GroupLen(df, tenor) >= Min(Range(windows))

\* tenors with fewer rows than max(windows) are skipped
RealizedGroupKept(df, tenor, windows) == GroupLen(df, tenor) >= MaxWindow(windows)

compute_realized_vol(sr, d, windows) ==
    LET filtered == FilterByDate(sr, d)
        tenors == SortedInts(GroupKeys(filtered))
        kept == SelectSeq(tenors, LAMBDA t : RealizedGroupKept(filtered, t, windows))
    IN  [i \in 1..Len(kept) |->
            RealizedRow(kept[i], SeriesOf(filtered, kept[i]), windows)]

(***************************************************************************)
(* add_highlighting_flags                                                  *)
(***************************************************************************)
\* groups shorter than this are skipped by the flag loop
FlagGroupKept(df, k) == k \in GroupKeys(df) /\ GroupLen(df, k) >= 21

\* variant: the oldest position of the window is left out
WindowChanges_OneShort(vol_series, lookback, period) ==
    LET n == Len(vol_series)
    IN  {Abs(vol_series[j] - vol_series[j - period]) :
            j \in {i \in (n - lookback + 2)..n : i - 1 >= period}}

\* the absolute period-changes at the trailing `lookback` positions:
\* for i in range(len - lookback, len): if i >= period: abs(v[i] - v[i-period])
WindowChanges(vol_series, lookback, period) ==
    LET n == Len(vol_series)
    IN  {Abs(vol_series[j] - vol_series[j - period]) :
            j \in {i \in (n - lookback + 1)..n : i - 1 >= period}}

\* the absolute changes of every group of df, not of one series
WindowChangesOfAll(df, lookback, period) ==
    UNION {WindowChanges(SeriesOf(df, k), lookback, period) :
              k \in {g \in GroupKeys(df) : GroupLen(df, g) > lookback + period}}

\* one detection block: the length gate, the window maximum, the comparison
\* of the row's current change with it
LargestMover(vol_series, min_len, lookback, period, current_chg) ==
    IF Len(vol_series) >= min_len
    THEN LET changes == WindowChanges(vol_series, lookback, period)
             current == AbsOpt(current_chg)
         IN  /\ changes # {}
             /\ current # NaN
             /\ current[1] = Max(changes)
    ELSE FALSE

\* variant: the current change is compared with the changes of all groups
FlaggedRow_AcrossKeys(row, df) ==
    LET k == <<row.expiry, row.tenor>>
        kept == FlagGroupKept(df, k)
        cur(x) == AbsOpt(x)
    IN  [is_largest_1d_mover |->
            kept /\ cur(row.implied_vol_ann_1d_chg)[1] = Max(WindowChangesOfAll(df, 10, 1)),
         is_largest_1w_mover |->
            kept /\ GroupLen(df, k) >= 26
                 /\ cur(row.implied_vol_ann_1w_chg)[1] = Max(WindowChangesOfAll(df, 20, 5)),
         is_largest_1m_mover |->
            kept /\ GroupLen(df, k) >= 141
                 /\ cur(row.implied_vol_ann_1m_chg)[1] = Max(WindowChangesOfAll(df, 120, 20))]
        @@ row

FlaggedRow(row, df) ==
    LET k == <<row.expiry, row.tenor>>
        kept == FlagGroupKept(df, k)
        vol_series == SeriesOf(df, k)
    IN  [is_largest_1d_mover |->
            kept /\ LargestMover(vol_series, 11, 10, 1, row.implied_vol_ann_1d_chg),
         is_largest_1w_mover |->
            kept /\ LargestMover(vol_series, 26, 20, 5, row.implied_vol_ann_1w_chg),
         is_largest_1m_mover |->
            kept /\ LargestMover(vol_series, 141, 120, 20, row.implied_vol_ann_1m_chg)]
        @@ row

add_highlighting_flags(rows, vd, d) ==
    LET filtered == FilterByDate(vd, d)
    IN  [i \in 1..Len(rows) |-> FlaggedRow(rows[i], filtered)]

(***************************************************************************)
(* build_swaption_vol_table                                                *)
(***************************************************************************)
\* x / np.sqrt(252), NaN stays NaN
DailyFromAnn(x) == IF x = NaN THEN NaN ELSE <<[num |-> x[1], root |-> 252]>>

\* the six implied_vol_daily_* columns added to implied_df
WithDailyColumns(row) ==
    [implied_vol_daily_current |-> DailyFromAnn(row.implied_vol_ann_current),
     implied_vol_daily_1d_chg |-> DailyFromAnn(row.implied_vol_ann_1d_chg),
     implied_vol_daily_1w_chg |-> DailyFromAnn(row.implied_vol_ann_1w_chg),
     implied_vol_daily_1m_chg |-> DailyFromAnn(row.implied_vol_ann_1m_chg),
     implied_vol_daily_20d_high |-> DailyFromAnn(row.implied_vol_ann_20d_high),
     implied_vol_daily_20d_low |-> DailyFromAnn(row.implied_vol_ann_20d_low)]
    @@ row

\* variant: an inner join, a left row without a match is dropped
MergeLeftRow_Inner(row, rdf) ==
    LET matches == SelectSeq(rdf, LAMBDA r : r.tenor = row.tenor)
    IN  [j \in 1..Len(matches) |-> [realized_vol |-> matches[j].realized_vol] @@ row]

\* the rows merge(realized_df, on='tenor', how='left') makes of one left row:
\* one per matching right row, or one with undefined realized fields when
\* there is no match; realized_df is not empty here
MergeLeftRow(row, rdf) ==
    LET matches == SelectSeq(rdf, LAMBDA r : r.tenor = row.tenor)
    IN  IF Len(matches) > 0
        THEN [j \in 1..Len(matches) |-> [realized_vol |-> matches[j].realized_vol] @@ row]
        ELSE <<[realized_vol |-> [w \in DOMAIN rdf[1].realized_vol |-> NaN]] @@ row>>

RECURSIVE MergeLeftUpTo(_, _, _)
MergeLeftUpTo(ldf, rdf, n) ==
    IF n = 0 THEN <<>>
    ELSE MergeLeftUpTo(ldf, rdf, n - 1) \o MergeLeftRow(ldf[n], rdf)

\* implied_df.merge(realized_df, on='tenor', how='left'): the left rows in
\* their order, each with its matches
MergeLeft(ldf, rdf) == MergeLeftUpTo(ldf, rdf, Len(ldf))

\* expiry + ' x ' + str(tenor) + 'Y'
TermTenor(row) == [term_tenor |-> <<row.expiry, " x ", row.tenor, "Y">>] @@ row

\* variant: only the expiry filter is applied
InGrid_ExpiryOnly(row) == row.expiry \in Range(OPTION_TENORS)

\* the two isin() filters
InGrid(row) ==
    /\ row.expiry \in Range(OPTION_TENORS)
    /\ row.tenor \in Range(SWAP_TENORS)

\* expiry_order: the position of the label in OPTION_TENORS
ExpiryOrder(e) == CHOOSE i \in DOMAIN OPTION_TENORS : OPTION_TENORS[i] = e

\* variant: rows are ordered by the expiry label as a string
RowBefore_Alphabetic(a, b) == KeyLess(<<a.expiry, a.tenor>>, <<b.expiry, b.tenor>>)

RowBefore(a, b) ==
    \/ ExpiryOrder(a.expiry) < ExpiryOrder(b.expiry)
    \/ a.expiry = b.expiry /\ a.tenor < b.tenor

\* sort_values(['expiry_order', 'tenor']).reset_index(drop=True)
SortRows(rows) ==
    LET S == Range(rows)
        rank(r) == 1 + Cardinality({q \in S : RowBefore(q, r)})
    IN  [i \in 1..Cardinality(S) |-> CHOOSE r \in S : rank(r) = i]

\* the columns of pd.DataFrame(results): the keys of the row dicts
ColumnsOfRows(rows) == UNION {DOMAIN rows[i] : i \in DOMAIN rows}

\* f'realized_vol_{window}d'
WindowColumn(w) ==
    CASE w = 10 -> "realized_vol_10d"
      [] w = 20 -> "realized_vol_20d"
      [] w = 60 -> "realized_vol_60d"
      [] w = 90 -> "realized_vol_90d"
      [] w = 120 -> "realized_vol_120d"
      [] w = 180 -> "realized_vol_180d"

\* the columns of realized_df: 'tenor' and one column per window of a row
RealizedColumns(rdf) ==
    {"tenor"} \cup
        {WindowColumn(w) : w \in UNION {DOMAIN rdf[i].realized_vol : i \in DOMAIN rdf}}

\* variant: the merge brings no realized columns
ResultColumns_ImpliedOnly(with_daily, rdf) ==
    ColumnsOfRows(with_daily) \cup {"term_tenor"}

\* result.columns after the merge and the term_tenor assignment
ResultColumns(with_daily, rdf) ==
    ColumnsOfRows(with_daily) \cup RealizedColumns(rdf) \cup {"term_tenor"}

cols ==
    <<"expiry", "tenor", "term_tenor",
      "implied_vol_ann_current", "implied_vol_ann_1d_chg", "implied_vol_ann_1w_chg",
      "implied_vol_ann_1m_chg", "implied_vol_ann_20d_high", "implied_vol_ann_20d_low",
      "implied_vol_daily_current", "implied_vol_daily_1d_chg", "implied_vol_daily_1w_chg",
      "implied_vol_daily_1m_chg", "implied_vol_daily_20d_high", "implied_vol_daily_20d_low",
      "realized_vol_10d", "realized_vol_20d", "realized_vol_60d",
      "realized_vol_90d", "realized_vol_120d", "realized_vol_180d">>

\* the three columns add_highlighting_flags initialises
FlagColumns == <<"is_largest_1d_mover", "is_largest_1w_mover", "is_largest_1m_mover">>

\* cols = [c for c in cols if c in result.columns]; result = result[cols];
\* then the flag columns (expiry_order is added and dropped again)
TableColumns(result_columns) ==
    SelectSeq(cols, LAMBDA c : c \in result_columns) \o FlagColumns

Raised(e) == [status |-> "raised", error |-> e, rows |-> <<>>, columns |-> <<>>]

Returned(rows, columns) ==
    [status |-> "returned", error |-> "", rows |-> rows, columns |-> columns]

\* the outcome of build_swaption_vol_table given the two stage results: an
\* empty DataFrame built from an empty list has no columns, so indexing it
\* or merging on 'tenor' raises KeyError
BuildFrom(idf, rdf, vd, d) ==
    IF Len(idf) = 0 THEN Raised("KeyError: 'implied_vol_ann_current'")
    ELSE IF Len(rdf) = 0 THEN Raised("KeyError: 'tenor'")
    ELSE LET with_daily == [i \in 1..Len(idf) |-> WithDailyColumns(idf[i])]
             joined == MergeLeft(with_daily, rdf)
             merged == [i \in 1..Len(joined) |-> TermTenor(joined[i])]
             result == SelectSeq(merged, InGrid)
         IN  Returned(SortRows(add_highlighting_flags(result, vd, d)),
                      TableColumns(ResultColumns(with_daily, rdf)))

build_swaption_vol_table(vd, sr, d) ==
    BuildFrom(compute_implied_vol_changes(vd, d),
              compute_realized_vol(sr, d, REALIZED_VOL_WINDOWS), vd, d)

(***************************************************************************)
(* The observation sets handed to the builder.  Every implied key follows  *)
(* one level path with up to three jumps (an old one and two recent ones)  *)
(* on its own calendar; the rate tenors have histories of different        *)
(* lengths.                                                                *)
(***************************************************************************)
ImpliedKeys ==
    {<<"1M", 2>>, <<"1Y", 5>>, <<"2Y", 2>>, <<"5Y", 2>>, <<"1M", 7>>,
     <<"6M", 5>>, <<"6M", 10>>}

RateTenors == {2, 5, 10}

Scenarios ==
    [s1 : {0, 2}, j2 : {182, 200}, s2 : {-2, 1}, gap : {1, 6}, s3 : {-2, -1, 0, 2}]

Level(u, dt) ==
    50 + (IF dt >= 70 THEN u.s1 ELSE 0)
       + (IF dt >= u.j2 THEN u.s2 ELSE 0)
       + (IF dt >= u.j2 + u.gap THEN u.s3 ELSE 0)

HasVolRow(k, dt) ==
    CASE k = <<"1M", 2>> -> dt >= 60
      [] k = <<"1Y", 5>> -> dt >= 178
      [] k = <<"2Y", 2>> -> dt % 7 # 0
      [] k = <<"5Y", 2>> -> dt >= 100
      [] k = <<"1M", 7>> -> dt >= 170
      [] k = <<"6M", 5>> -> dt >= 195
      [] k = <<"6M", 10>> -> dt >= 190

VolUniverse(u) ==
    [k \in ImpliedKeys |->
        [dt \in Dates |-> IF HasVolRow(k, dt) THEN <<Level(u, dt) + k[2]>> ELSE NoRow]]

HasRateRow(t, dt) ==
    CASE t = 2 -> TRUE
      [] t = 5 -> dt >= 20
      [] t = 10 -> dt >= 2

RateValue(t, dt) ==
    CASE t = 2 -> 3 + ((dt \div 5) % 2)
      [] t = 5 -> 4
      [] t = 10 -> 4 + (dt % 3)

RateUniverse ==
    [t \in RateTenors |->
        [dt \in Dates |-> IF HasRateRow(t, dt) THEN <<RateValue(t, dt)>> ELSE NoRow]]

(***************************************************************************)
(* State machine: the builder is called for an as-of-date on the loaded    *)
(* observation sets.                                                       *)
(***************************************************************************)
NoTable == [status |-> "none", error |-> "", rows |-> <<>>, columns |-> <<>>]

NoEdit == [kind |-> "none", key |-> <<"", 0>>, date |-> 0]

\* a module-level name that is None
None == <<>>

\* no function of the fifth specification has been applied
NoCalc == [fn |-> "none"]

Init ==
    /\ \E u \in Scenarios : vol_data = VolUniverse(u)
    /\ swap_rates = RateUniverse
    /\ as_of_date = 0
    /\ implied_df = <<>>
    /\ realized_df = <<>>
    /\ table = NoTable
    /\ edit = NoEdit
    /\ vol_data_cache = None
    /\ swap_rates_cache = None
    /\ loader_calls = 0
    /\ pc = "idle"
    /\ log = <<>>
    /\ calc = NoCalc

\* table = build_swaption_vol_table(vol_data, swap_rates, d); the results of
\* its two stages are kept as implied_df and realized_df
BuildStep(d) ==
    /\ as_of_date' = d
    /\ implied_df' = compute_implied_vol_changes(vol_data, d)
    /\ realized_df' = compute_realized_vol(swap_rates, d, REALIZED_VOL_WINDOWS)
    /\ table' = BuildFrom(implied_df', realized_df', vol_data, d)
    /\ vol_data' = InputAfterFilter(vol_data, d)
    /\ swap_rates' = InputAfterFilter(swap_rates, d)
    /\ pc' = "build_swaption_vol_table"
    /\ UNCHANGED <<edit, service, calc>>

Build(d) ==
    /\ table = NoTable
    /\ BuildStep(d)
    /\ UNCHANGED log

\* the caller takes the outcome; the next call starts afresh
Return ==
    /\ table # NoTable
    /\ as_of_date' = 0
    /\ implied_df' = <<>>
    /\ realized_df' = <<>>
    /\ table' = NoTable
    /\ pc' = "idle"
    /\ UNCHANGED <<vol_data, swap_rates, edit, service, log, calc>>

Next ==
    \/ \E d \in AsOfDates : Build(d)
    \/ Return

Spec == Init /\ [][Next]_vars

(***************************************************************************)
(* Second specification: after a call, the observation sets are perturbed  *)
(* in one cell (an observation is added, removed or altered) near the      *)
(* as-of-date; the outcome of the call on the perturbed sets is compared   *)
(* with the outcome kept in `table`.                                       *)
(***************************************************************************)
EditScenarios ==
    {u \in Scenarios : u.s1 = 2 /\ u.s2 = -2 /\ u.gap = 1 /\ u.s3 = 2}

\* the dates an edit may touch: around the as-of-date, and the last date
EditDates ==
    {dt \in Dates : as_of_date - EditSpan <= dt /\ dt <= as_of_date + EditSpan}
        \cup {MaxDate}

InitEdit ==
    /\ \E u \in EditScenarios : vol_data = VolUniverse(u)
    /\ swap_rates = RateUniverse
    /\ as_of_date = 0
    /\ implied_df = <<>>
    /\ realized_df = <<>>
    /\ table = NoTable
    /\ edit = NoEdit
    /\ vol_data_cache = None
    /\ swap_rates_cache = None
    /\ loader_calls = 0
    /\ pc = "idle"
    /\ log = <<>>
    /\ calc = NoCalc

\* the implied observation of key k on date dt is set to cell c
EditVol(k, dt, c) ==
    /\ table # NoTable
    /\ edit = NoEdit
    /\ vol_data[k][dt] # c
    /\ vol_data' = [vol_data EXCEPT ![k][dt] = c]
    /\ edit' = [kind |-> "vol", key |-> k, date |-> dt]
    /\ UNCHANGED <<swap_rates, as_of_date, implied_df, realized_df, table, service, pc, log, calc>>

\* the rate observation of tenor t on date dt is set to cell c
EditRate(t, dt, c) ==
    /\ table # NoTable
    /\ edit = NoEdit
    /\ swap_rates[t][dt] # c
    /\ swap_rates' = [swap_rates EXCEPT ![t][dt] = c]
    /\ edit' = [kind |-> "rate", key |-> <<"", t>>, date |-> dt]
    /\ UNCHANGED <<vol_data, as_of_date, implied_df, realized_df, table, service, pc, log, calc>>

NextEdit ==
    \/ \E d \in AsOfDates : Build(d)
    \/ \E k \in DOMAIN vol_data, dt \in EditDates, c \in {NoRow, <<90>>} : EditVol(k, dt, c)
    \/ \E t \in DOMAIN swap_rates, dt \in EditDates, c \in {NoRow, <<9>>} : EditRate(t, dt, c)

SpecEdit == InitEdit /\ [][NextEdit]_vars

(***************************************************************************)
(* Third specification: the builder is called up to MaxCalls times, one    *)
(* call after the other, on the same observation sets; the caller keeps    *)
(* every outcome in `log`.                                                 *)
(***************************************************************************)
CallDates == {EarlyDays \div 2, MaxDate - SweepDays \div 2, MaxDate}

CallBuild(d) ==
    /\ Len(log) < MaxCalls
    /\ BuildStep(d)
    /\ log' = Append(log, [as_of_date |-> d, table |-> table'])

NextCalls == \E d \in CallDates : CallBuild(d)

SpecCalls == InitEdit /\ [][NextCalls]_vars

(***************************************************************************)
(* Fourth specification: get_swaption_table.py.  Here vol_data and         *)
(* swap_rates are what the loaders read from the data directory; the       *)
(* module keeps what it loaded in _vol_data_cache and _swap_rates_cache    *)
(* and hands these to the builder.  A loading pass can fail with no vol    *)
(* year readable or with no SOFR file readable.                            *)
(***************************************************************************)
LoadModes == {"ok", "no_vol", "no_sofr"}

\* variant: every call goes through the loading branch
LoadNeeded_Always(vc, sc) == TRUE

\* if _vol_data_cache is None or _swap_rates_cache is None
LoadNeeded(vc, sc) == vc = None \/ sc = None

\* the records load_atm_timeseries keeps: swap tenors in SWAP_TENORS
LoadedVol(raw) ==
    [k \in {q \in DOMAIN raw : q[2] \in Range(SWAP_TENORS)} |-> raw[k]]

\* _load_data(): the two module-level caches after the call, whether the
\* loaders were invoked, and the exception raised ("" for a normal return)
load_data(vc, sc, raw_vol, raw_rates, mode) ==
    IF ~LoadNeeded(vc, sc)
    THEN [vol |-> vc, rates |-> sc, loaded |-> 0, error |-> ""]
    ELSE IF mode = "no_vol"
    THEN [vol |-> vc, rates |-> sc, loaded |-> 1,
          error |-> "ValueError: No vol data loaded"]
    ELSE IF mode = "no_sofr"
    THEN [vol |-> <<LoadedVol(raw_vol)>>, rates |-> sc, loaded |-> 1,
          error |-> "ValueError: No SOFR data loaded"]
    ELSE [vol |-> <<LoadedVol(raw_vol)>>, rates |-> <<raw_rates>>, loaded |-> 1,
          error |-> ""]

\* the dates on which df has a row
DatesOf(df) == {dt \in Dates : \E k \in DOMAIN df : IsRow(df[k][dt])}

\* vol_data['date'].min(), vol_data['date'].max()
min_date(vd) == Min(DatesOf(vd))

max_date(vd) == Max(DatesOf(vd))

\* variant: the two bounds themselves are rejected
DateCheck_Exclusive(vd, d) ==
    IF d <= min_date(vd) THEN "ValueError: Date is before earliest data"
    ELSE IF d >= max_date(vd) THEN "ValueError: Date is after latest data"
    ELSE ""

\* the date validation of get_swaption_table: the exception it raises, or ""
DateCheck(vd, d) ==
    IF d < min_date(vd) THEN "ValueError: Date is before earliest data"
    ELSE IF d > max_date(vd) THEN "ValueError: Date is after latest data"
    ELSE ""

\* get_swaption_table(d) after _load_data() returned vd, sr: the two stage
\* results (empty when the builder is not reached) and the outcome
get_swaption_table(vd, sr, d) ==
    IF DateCheck(vd, d) # ""
    THEN [implied_df |-> <<>>, realized_df |-> <<>>, table |-> Raised(DateCheck(vd, d))]
    ELSE LET idf == compute_implied_vol_changes(vd, d)
             rdf == compute_realized_vol(sr, d, REALIZED_VOL_WINDOWS)
         IN  [implied_df |-> idf, realized_df |-> rdf, table |-> BuildFrom(idf, rdf, vd, d)]

\* the effect of a call of _load_data() on the module-level state
LoadStep(L) ==
    /\ loader_calls + L.loaded <= MaxLoads
    /\ loader_calls' = loader_calls + L.loaded
    /\ UNCHANGED <<vol_data, swap_rates, edit, log, calc>>

\* _load_data() called on its own (the command line of the module)
LoadData(mode) ==
    /\ table = NoTable
    /\ LET L == load_data(vol_data_cache, swap_rates_cache, vol_data, swap_rates, mode)
       IN  /\ LoadStep(L)
           /\ vol_data_cache' = L.vol
           /\ swap_rates_cache' = L.rates
           /\ pc' = "_load_data"
           /\ table' = IF L.error # "" THEN Raised(L.error) ELSE NoTable
           /\ UNCHANGED <<as_of_date, implied_df, realized_df>>

\* the part of get_swaption_table(d) after its _load_data() call gave L
TableStep(L, d) ==
    /\ as_of_date' = d
    /\ IF L.error # ""
       THEN /\ implied_df' = <<>>
            /\ realized_df' = <<>>
            /\ table' = Raised(L.error)
            /\ vol_data_cache' = L.vol
            /\ swap_rates_cache' = L.rates
       ELSE LET out == get_swaption_table(L.vol[1], L.rates[1], d)
                reached == DateCheck(L.vol[1], d) = ""
            IN  /\ implied_df' = out.implied_df
                /\ realized_df' = out.realized_df
                /\ table' = out.table
                /\ vol_data_cache' =
                       IF reached THEN <<InputAfterFilter(L.vol[1], d)>> ELSE L.vol
                /\ swap_rates_cache' =
                       IF reached THEN <<InputAfterFilter(L.rates[1], d)>> ELSE L.rates

\* table = get_swaption_table(d)
GetTable(d, mode) ==
    /\ table = NoTable
    /\ LET L == load_data(vol_data_cache, swap_rates_cache, vol_data, swap_rates, mode)
       IN  LoadStep(L) /\ TableStep(L, d)
    /\ pc' = "get_swaption_table"

\* table = get_swaption_table_latest(): _load_data(), the latest date of the
\* loaded vol data, then get_swaption_table for that date
GetLatest(mode) ==
    /\ table = NoTable
    /\ LET L == load_data(vol_data_cache, swap_rates_cache, vol_data, swap_rates, mode)
       IN  /\ LoadStep(L)
           /\ TableStep(L, IF L.error # "" THEN as_of_date ELSE max_date(L.vol[1]))
    /\ pc' = "get_swaption_table_latest"

\* the as-of-dates asked of the service
ServiceDates ==
    {0, 1, EarlyDays \div 2, MaxDate - SweepDays \div 2, MaxDate, MaxDate + 1}

\* the outcomes the environment can give a call: they differ only when the
\* call goes through the loading branch
ModesNow ==
    IF LoadNeeded(vol_data_cache, swap_rates_cache) THEN LoadModes ELSE {"ok"}

\* the data directory changes between calls: the oldest or the newest
\* observation of the series that spans all dates disappears
RawEditKeys == {k \in DOMAIN vol_data : IsRow(vol_data[k][1])}

RawEditDates == {1, MaxDate}

NextService ==
    \/ \E mode \in ModesNow : LoadData(mode)
    \/ \E d \in ServiceDates, mode \in ModesNow : GetTable(d, mode)
    \/ \E mode \in ModesNow : GetLatest(mode)
    \/ Return
    \/ \E k \in RawEditKeys, dt \in RawEditDates : EditVol(k, dt, NoRow)

SpecService == InitEdit /\ [][NextService]_vars

(***************************************************************************)
(* Fifth specification: functions applied on their own to small inputs.    *)
(* A rate history is a sequence m of levels in percent points; it is       *)
(* handed over in percent (the numbers m[i]) or in decimal (the numbers    *)
(* m[i] / 100), which the record [m, div] with div = 1 or 100 says.  The   *)
(* outcome of the application is kept in `calc`.                           *)
(***************************************************************************)
RateLevels == {0, 3, 5}

Histories == UNION {[1..n -> RateLevels] : n \in 0..MaxLen}

UnitDivs == {1, 100}

CalcWindows == {4, 12}

WindowLists == {<<4>>, <<4, 6>>}

\* variant: the first difference is taken against 0 instead of being null
VolChangesBp_FirstFromZero(clean, div, rates_in_percent) ==
    [i \in 1..Len(clean) |->
        <<((clean[i] - (IF i = 1 THEN 0 ELSE clean[i - 1]))
              * (IF rates_in_percent THEN 100 ELSE 10000)) \div div>>]

\* (rates_clean - rates_clean.shift(1)) * 100, or * 10000 for decimal rates;
\* the numbers are clean[i] / div and the products are whole
VolChangesBp(clean, div, rates_in_percent) ==
    [i \in 1..Len(clean) |->
        IF i = 1 THEN NaN
        ELSE <<((clean[i] - clean[i - 1])
                   * (IF rates_in_percent THEN 100 ELSE 10000)) \div div>>]

\* min_periods=min(5, window//2)
MinPeriods(window) == Min({5, window \div 2})

\* calculate_realized_vol (src/src/volatility.py): the series returned, one
\* value per position of rates; a value r is kept as r^2 = ann * num / den
calculate_realized_vol(rates, window, annualize, rates_in_percent) ==
    LET m == rates.m
        kept == SelectSeq([i \in 1..Len(m) |-> i], LAMBDA i : m[i] > 0)
        rates_clean == [j \in 1..Len(kept) |-> m[kept[j]]]
        daily_changes_bp == VolChangesBp(rates_clean, rates.div, rates_in_percent)
        rolling_std_bp(j) ==
            RollingStdLast(SubSeq(daily_changes_bp, 1, j), window, MinPeriods(window))
        realized_vol(j) ==
            IF rolling_std_bp(j) = NaN THEN NaN
            ELSE <<[rolling_std_bp(j)[1] EXCEPT
                       !.ann = IF annualize THEN TRADING_DAYS_PER_YEAR ELSE 1]>>
    IN  IF Len(rates_clean) < 2 THEN [i \in 1..Len(m) |-> NaN]
        ELSE [i \in 1..Len(m) |->
                 IF m[i] > 0
                 THEN realized_vol(Cardinality({j \in 1..i : m[j] > 0}))
                 ELSE NaN]

\* the rate observations of one tenor on the dates 1..Len(m)
OneTenorFrame(m) ==
    [t \in {2} |-> [dt \in Dates |-> IF dt <= Len(m) THEN <<m[dt]>> ELSE NoRow]]

\* a realized-vol row computed from the numbers m[i] / div: every value is
\* the one computed from m divided by div (the differences are multiplied
\* by 100 whatever the unit), so its square is divided by div * div
RowInUnit(row, div) ==
    [tenor |-> row.tenor,
     realized_vol |->
        [w \in DOMAIN row.realized_vol |->
            IF row.realized_vol[w] = NaN THEN NaN
            ELSE <<[row.realized_vol[w][1] EXCEPT !.num = @ \div (div * div)]>>]]

\* compute_realized_vol on the history of one tenor, as of its last date
ComputeOn(rates, windows) ==
    LET rows == compute_realized_vol(OneTenorFrame(rates.m), Len(rates.m), windows)
    IN  [i \in 1..Len(rows) |-> RowInUnit(rows[i], rates.div)]

\* calc.result = calculate_realized_vol(rates, window, annualize,
\* rates_in_percent), with the unit declared as the data are
CalcVol(m, div, window, annualize) ==
    /\ calc = NoCalc
    /\ calc' = [fn |-> "calculate_realized_vol",
                rates |-> [m |-> m, div |-> div],
                window |-> window,
                annualize |-> annualize,
                rates_in_percent |-> (div = 1),
                result |-> calculate_realized_vol([m |-> m, div |-> div], window,
                                                  annualize, div = 1)]
    /\ UNCHANGED <<vol_data, swap_rates, as_of_date, implied_df, realized_df, table,
                   edit, service, pc, log>>

\* calc.result = compute_realized_vol(swap_rates, as_of_date, windows)
ComputeVol(m, div, windows) ==
    /\ calc = NoCalc
    /\ calc' = [fn |-> "compute_realized_vol",
                rates |-> [m |-> m, div |-> div],
                windows |-> windows,
                result |-> ComputeOn([m |-> m, div |-> div], windows)]
    /\ UNCHANGED <<vol_data, swap_rates, as_of_date, implied_df, realized_df, table,
                   edit, service, pc, log>>

(***************************************************************************)
(* SOFRLoader.load_sofr_rates (src/src/data/data_loader.py), from the rows  *)
(* of the sheet on: a row is the pair of cells of the date and the rate    *)
(* column.                                                                 *)
(***************************************************************************)
DateCell(kind, v) == [kind |-> kind, v |-> v]

RateCell(kind, v) == [kind |-> kind, v |-> v]

SheetRow(date_val, rate_val) == [date_val |-> date_val, rate_val |-> rate_val]

\* the rows a sheet is made of: a header row, rows whose date is missing or
\* does not parse, rows with a date and a number, rows with a date whose
\* rate is missing or is not a number
SheetRows ==
    {SheetRow(DateCell("header", 0), RateCell("text", 0)),
     SheetRow(DateCell("nan", 0), RateCell("num", 3)),
     SheetRow(DateCell("text", 0), RateCell("num", 5)),
     SheetRow(DateCell("date", 1), RateCell("num", 3)),
     SheetRow(DateCell("date", 1), RateCell("nan", 0)),
     SheetRow(DateCell("date", 2), RateCell("num", 5)),
     SheetRow(DateCell("date", 2), RateCell("text", 0)),
     SheetRow(DateCell("date", 3), RateCell("num", 3))}

Sheets == UNION {[1..n -> SheetRows] : n \in 0..MaxSheetRows}

\* the row reaches dates.append(parsed_date.date()): its date cell is no
\* header string, is not missing and parses
DateAppended(row) == row.date_val.kind = "date"

\* the row reaches rates.append(rate_num): pd.to_numeric gives a number
RateAppended(row) == DateAppended(row) /\ row.rate_val.kind = "num"

\* result.sort_values('date'): records in ascending date, equal dates in
\* the order they had
SortByDate(recs) ==
    LET rank(i) == Cardinality({j \in 1..Len(recs) :
                       \/ recs[j].date < recs[i].date
                       \/ recs[j].date = recs[i].date /\ j <= i})
    IN  [r \in 1..Len(recs) |-> recs[CHOOSE i \in 1..Len(recs) : rank(i) = r]]

LoadRaised(e) == [status |-> "raised", error |-> e, records |-> <<>>]

LoadReturned(recs) == [status |-> "returned", error |-> "", records |-> recs]

load_sofr_rates(sheet) ==
    LET dated == SelectSeq(sheet, DateAppended)
        rated == SelectSeq(sheet, RateAppended)
        dates == [i \in 1..Len(dated) |-> dated[i].date_val.v]
        rates == [i \in 1..Len(rated) |-> rated[i].rate_val.v]
    IN  IF Len(dates) = 0 THEN LoadRaised("ValueError")
        ELSE IF Len(dates) # Len(rates) THEN LoadRaised("ValueError")
        ELSE LoadReturned(SortByDate([i \in 1..Len(dates) |->
                                         [date |-> dates[i], rate |-> rates[i]]]))

\* calc.result = SOFRLoader().load_sofr_rates(tenor) for a file with the
\* rows of sheet
LoadSofr(sheet) ==
    /\ calc = NoCalc
    /\ calc' = [fn |-> "load_sofr_rates",
                sheet |-> sheet,
                result |-> load_sofr_rates(sheet)]
    /\ UNCHANGED <<vol_data, swap_rates, as_of_date, implied_df, realized_df, table,
                   edit, service, pc, log>>

InitFunctions ==
    /\ vol_data = <<>>
    /\ swap_rates = <<>>
    /\ as_of_date = 0
    /\ implied_df = <<>>
    /\ realized_df = <<>>
    /\ table = NoTable
    /\ edit = NoEdit
    /\ vol_data_cache = None
    /\ swap_rates_cache = None
    /\ loader_calls = 0
    /\ pc = "idle"
    /\ log = <<>>
    /\ calc = NoCalc

NextFunctions ==
    \/ \E m \in Histories, div \in UnitDivs, window \in CalcWindows, annualize \in BOOLEAN :
          CalcVol(m, div, window, annualize)
    \/ \E m \in Histories, div \in UnitDivs, windows \in WindowLists :
          ComputeVol(m, div, windows)
    \/ \E sheet \in Sheets : LoadSofr(sheet)

SpecFunctions == InitFunctions /\ [][NextFunctions]_vars

(***************************************************************************)
(* Sixth specification: the builder on observation sets given as lists of  *)
(* records in some order.  The series of a key is taken from the list as   *)
(* the code takes it: date filter, sort_values, groupby, set_index and     *)
(* sort_index.                                                             *)
(***************************************************************************)
\* one row of vol_data (key = (expiry, tenor)) or of swap_rates (key = tenor)
Record(date, key, value) == [date |-> date, key |-> key, value |-> value]

\* the concatenation of f[lo], ..., f[hi], by halving
RECURSIVE ConcatOver(_, _, _)
ConcatOver(f, lo, hi) ==
    IF lo > hi THEN <<>>
    ELSE IF lo = hi THEN f[lo]
    ELSE LET mid == (lo + hi) \div 2
         IN  ConcatOver(f, lo, mid) \o ConcatOver(f, mid + 1, hi)

\* df[df['date'] <= as_of_date] on a list of rows
RecordsUpTo(records, d) == SelectSeq(records, LAMBDA r : r.date <= d)

\* df.sort_values(['date', <key columns>]): ascending date, rows of one
\* date in the order of their keys (keys lists the keys in that order)
SortValues(records, keys) ==
    ConcatOver([dt \in Dates |->
                   LET on_date == SelectSeq(records, LAMBDA r : r.date = dt)
                   IN  ConcatOver([i \in 1..Len(keys) |->
                                      SelectSeq(on_date, LAMBDA r : r.key = keys[i])],
                                  1, Len(keys))],
               1, MaxDate)

\* the rows groupby hands over for key k: those carrying k, in frame order
GroupRows(records, k) == SelectSeq(records, LAMBDA r : r.key = k)

\* group.set_index('date')[column].sort_index()
SortIndex(group) ==
    ConcatOver([dt \in Dates |-> SelectSeq(group, LAMBDA r : r.date = dt)], 1, MaxDate)

\* variant: the rows of the key in the order the list has them
OrderedGroup_AsGiven(records, keys, k) == GroupRows(records, k)

\* the rows vol_series / rate_series of key k is made of
OrderedGroup(records, keys, k) == SortIndex(GroupRows(SortValues(records, keys), k))

\* the frame whose series of key k is the values of OrderedGroup, one after
\* the other
SeriesFrame(records, keys) ==
    [k \in Range(keys) |->
        LET g == OrderedGroup(records, keys, k)
        IN  [i \in Dates |-> IF i <= Len(g) THEN <<g[i].value>> ELSE NoRow]]

KeysOf(records) == {records[i].key : i \in DOMAIN records}

\* build_swaption_vol_table(vol_data, swap_rates, as_of_date) on lists of rows
TableOfRecords(vol_records, rate_records, d) ==
    LET vd == RecordsUpTo(vol_records, d)
        sr == RecordsUpTo(rate_records, d)
    IN  build_swaption_vol_table(SeriesFrame(vd, SortedKeys(KeysOf(vd))),
                                 SeriesFrame(sr, SortedInts(KeysOf(sr))), MaxDate)

\* the observation sets: the last RecordSpan dates of three implied keys,
\* the last RateSpan dates of rate tenor 2 and the last ten of tenor 5
RecordKeys == <<<<"1M", 2>>, <<"1Y", 5>>, <<"2Y", 2>>>>

RecordTenors == <<2, 5>>

RecordVolFrame(u) ==
    [k \in Range(RecordKeys) |->
        [dt \in Dates |->
            IF dt > MaxDate - RecordSpan THEN VolUniverse(u)[k][dt] ELSE NoRow]]

RecordRateFrame ==
    [t \in Range(RecordTenors) |->
        [dt \in Dates |->
            IF dt > MaxDate - (IF t = 2 THEN RateSpan ELSE 10)
            THEN RateUniverse[t][dt] ELSE NoRow]]

\* the rows of a frame listed date by date
ListRecords(df, keys) ==
    ConcatOver([dt \in Dates |->
                   LET with_row == SelectSeq(keys, LAMBDA k : IsRow(df[k][dt]))
                   IN  [i \in 1..Len(with_row) |->
                           Record(dt, with_row[i], df[with_row[i]][dt][1])]],
               1, MaxDate)

RecordScenarios == {u \in Scenarios : u.s1 = 2 /\ u.j2 = 200 /\ u.s2 = 1 /\ u.gap = 6}

RecordAsOfDates == {MaxDate - 10, MaxDate}

Orders == [rev : BOOLEAN, split : BOOLEAN, shift : 0..MaxShift]

\* the list in another order: its first `shift` rows moved to the end, then
\* the rows at odd positions before those at even ones, then back to front
Permute(records, order) ==
    LET n == Len(records)
        s == IF n = 0 THEN 0 ELSE order.shift % n
        rotated == SubSeq(records, s + 1, n) \o SubSeq(records, 1, s)
        odd == [i \in 1..((n + 1) \div 2) |-> rotated[2 * i - 1]]
        even == [i \in 1..(n \div 2) |-> rotated[2 * i]]
        dealt == IF order.split THEN odd \o even ELSE rotated
    IN  IF order.rev THEN [i \in 1..n |-> dealt[n + 1 - i]] ELSE dealt

\* calc.result = build_swaption_vol_table(vol_data, swap_rates, d) where the
\* two frames hold the rows of scenario u in the given order
BuildRecords(u, order, d) ==
    /\ calc = NoCalc
    /\ calc' = [fn |-> "build_swaption_vol_table",
                u |-> u,
                order |-> order,
                as_of_date |-> d,
                result |-> TableOfRecords(
                               Permute(ListRecords(RecordVolFrame(u), RecordKeys), order),
                               Permute(ListRecords(RecordRateFrame, RecordTenors), order),
                               d)]
    /\ UNCHANGED <<vol_data, swap_rates, as_of_date, implied_df, realized_df, table,
                   edit, service, pc, log>>

NextRecords ==
    \E u \in RecordScenarios, order \in Orders, d \in RecordAsOfDates :
        BuildRecords(u, order, d)

SpecRecords == InitFunctions /\ [][NextRecords]_vars

(***************************************************************************)
(* Reference notions the properties are stated with, read off the          *)
(* observation sets directly.                                              *)
(***************************************************************************)
GridCells == {<<OPTION_TENORS[i], SWAP_TENORS[j]>> :
                 i \in DOMAIN OPTION_TENORS, j \in DOMAIN SWAP_TENORS}

\* dates at or before d on which key k has an observation
ObsDates(df, k, d) ==
    IF k \in DOMAIN df THEN {dt \in Dates : dt <= d /\ df[k][dt] # NoRow} ELSE {}

ObsCount(df, k, d) == Cardinality(ObsDates(df, k, d))

\* the values of key k dated at or before d, oldest first
RefSeries(df, k, d) ==
    LET ds == SelectSeq([dt \in Dates |-> dt], LAMBDA dt : dt <= d /\ df[k][dt] # NoRow)
    IN  [i \in 1..Len(ds) |-> df[k][ds[i]][1]]

KeyOf(row) == <<row.expiry, row.tenor>>

Called == table # NoTable

TableReturned == table.status = "returned"

TableRows == {table.rows[i] : i \in DOMAIN table.rows}

ImpliedRows == {implied_df[i] : i \in DOMAIN implied_df}

RealizedRows == {realized_df[i] : i \in DOMAIN realized_df}

(***************************************************************************)
(* C1: a grid cell has a row in the returned table iff its implied series  *)
(* has at least 5 observations at or before the as-of-date (the same for   *)
(* every key in the result of compute_implied_vol_changes); every row      *)
(* carries a current level, none stands in for a too-short series.         *)
(***************************************************************************)
C1_RowIffFiveObs ==
    /\ Called =>
         \A k \in DOMAIN vol_data :
            (\E r \in ImpliedRows : KeyOf(r) = k)
                <=> ObsCount(vol_data, k, as_of_date) >= 5
    /\ TableReturned =>
         /\ \A c \in GridCells :
               (\E r \in TableRows : KeyOf(r) = c)
                   <=> ObsCount(vol_data, c, as_of_date) >= 5
         /\ \A r \in TableRows :
               /\ r.implied_vol_ann_current # NaN
               /\ r.implied_vol_ann_1d_chg # NaN

C1_Witness ==
    /\ TableReturned
    /\ \E c \in GridCells :
          /\ ObsCount(vol_data, c, as_of_date) = 4
          /\ ~ \E r \in TableRows : KeyOf(r) = c
    /\ \E r \in TableRows : ObsCount(vol_data, KeyOf(r), as_of_date) >= 5

(***************************************************************************)
(* C3: in every emitted row, with v the N date-sorted values of its        *)
(* series: current = v[N-1], the 1-day change is v[N-1] - v[N-2], the      *)
(* 1-week change is v[N-1] - v[N-6] if N >= 6 and undefined otherwise, the *)
(* 1-month change is v[N-1] - v[N-21] if N >= 21 and undefined otherwise   *)
(* (positions counted from 0).                                             *)
(***************************************************************************)
ChangesAsSpecified(r) ==
    LET v == RefSeries(vol_data, KeyOf(r), as_of_date)
        N == Len(v)
    IN  /\ N >= 5
        /\ r.implied_vol_ann_current = <<v[N]>>
        /\ r.implied_vol_ann_1d_chg = <<v[N] - v[N - 1]>>
        /\ r.implied_vol_ann_1d_chg[1] + v[N - 1] = v[N]
        /\ r.implied_vol_ann_1w_chg = IF N >= 6 THEN <<v[N] - v[N - 5]>> ELSE NaN
        /\ r.implied_vol_ann_1m_chg = IF N >= 21 THEN <<v[N] - v[N - 20]>> ELSE NaN

C3_Changes ==
    /\ Called => \A r \in ImpliedRows : ChangesAsSpecified(r)
    /\ TableReturned => \A r \in TableRows : ChangesAsSpecified(r)

C3_Witness ==
    /\ TableReturned
    /\ \E r \in TableRows :
          /\ ObsCount(vol_data, KeyOf(r), as_of_date) = 5
          /\ r.implied_vol_ann_1d_chg # <<0>>
          /\ r.implied_vol_ann_1w_chg = NaN
          /\ r.implied_vol_ann_1m_chg = NaN
    /\ \E r \in TableRows :
          /\ ObsCount(vol_data, KeyOf(r), as_of_date) >= 21
          /\ r.implied_vol_ann_1w_chg \notin {NaN, <<0>>}
          /\ r.implied_vol_ann_1m_chg \notin {NaN, <<0>>}

(***************************************************************************)
(* C4: in every emitted row the 20-period high and low are the maximum and *)
(* minimum of the last min(N, 20) values of the row's series.              *)
(***************************************************************************)
HighLowAsSpecified(r) ==
    LET v == RefSeries(vol_data, KeyOf(r), as_of_date)
        N == Len(v)
        m == IF N < 20 THEN N ELSE 20
        W == {v[i] : i \in (N - m + 1)..N}
    IN  /\ r.implied_vol_ann_20d_high # NaN
        /\ r.implied_vol_ann_20d_low # NaN
        /\ r.implied_vol_ann_20d_high[1] \in W
        /\ r.implied_vol_ann_20d_low[1] \in W
        /\ \A x \in W : r.implied_vol_ann_20d_low[1] <= x
                        /\ x <= r.implied_vol_ann_20d_high[1]

C4_HighLow == TableReturned => \A r \in TableRows : HighLowAsSpecified(r)

\* a row whose series holds, before its last 20 values, a value above the
\* high or below the low
C4_Witness ==
    /\ TableReturned
    /\ \E r \in TableRows :
          LET v == RefSeries(vol_data, KeyOf(r), as_of_date)
          IN  /\ Len(v) > 20
              /\ r.implied_vol_ann_20d_high # r.implied_vol_ann_20d_low
              /\ \E i \in 1..(Len(v) - 20) :
                    \/ v[i] > r.implied_vol_ann_20d_high[1]
                    \/ v[i] < r.implied_vol_ann_20d_low[1]

(***************************************************************************)
(* Mover detections as specified: with v the row's series of length L and  *)
(* positions counted from 0, the current absolute change                   *)
(* |v[L-1] - v[L-1-p]| equals the maximum of |v[i] - v[i-p]| over the      *)
(* i in [L-k, L-1] with i-p >= 0.                                          *)
(***************************************************************************)
RefWindow(v, p, k) ==
    {Abs(v[j] - v[j - p]) : j \in {i \in 1..Len(v) : i >= Len(v) - k + 1 /\ i - p >= 1}}

IsWindowMax(v, p, k) ==
    LET L == Len(v)
        cur == Abs(v[L] - v[L - p])
    IN  /\ cur \in RefWindow(v, p, k)
        /\ \A x \in RefWindow(v, p, k) : x <= cur

RowSeries(r) == RefSeries(vol_data, KeyOf(r), as_of_date)

(***************************************************************************)
(* C5: whenever a detection with change-period p and lookback k is         *)
(* evaluated for a row (the flag loop reaches the row's group, which it    *)
(* does from 21 observations on, and the detection's own length threshold  *)
(* k + p + 1 is met), the flag is true iff the current absolute change     *)
(* equals the window maximum, ties included; for (p,k) = (1,10), (5,20),   *)
(* (20,120).                                                               *)
(***************************************************************************)
C5_FlagIffWindowMax ==
    TableReturned =>
        \A r \in TableRows :
            LET v == RowSeries(r)
                L == Len(v)
            IN  L >= 21 =>
                  /\ L >= 11 => (r.is_largest_1d_mover <=> IsWindowMax(v, 1, 10))
                  /\ L >= 26 => (r.is_largest_1w_mover <=> IsWindowMax(v, 5, 20))
                  /\ L >= 141 => (r.is_largest_1m_mover <=> IsWindowMax(v, 20, 120))

\* a 1-day flag that is true by a tie with an earlier position of the window,
\* and a 1-month detection that is evaluated and false
C5_Witness ==
    /\ TableReturned
    /\ \E r \in TableRows :
          LET v == RowSeries(r)
              L == Len(v)
          IN  /\ r.is_largest_1d_mover
              /\ v[L] # v[L - 1]
              /\ \E j \in (L - 9)..(L - 1) :
                    Abs(v[j] - v[j - 1]) = Abs(v[L] - v[L - 1])
    /\ \E r \in TableRows : Len(RowSeries(r)) >= 141 /\ ~ r.is_largest_1m_mover

(***************************************************************************)
(* C6: the 1-day/10-day detection is evaluated for every in-grid           *)
(* instrument with at least 11 observations (flag true exactly when the    *)
(* current 1-day absolute change equals the maximum over the trailing 10   *)
(* positions) and the flag is false with fewer than 11 observations.       *)
(***************************************************************************)
C6_OneDayFromEleven ==
    TableReturned =>
        \A r \in TableRows :
            LET v == RowSeries(r)
            IN  IF Len(v) >= 11
                THEN r.is_largest_1d_mover <=> IsWindowMax(v, 1, 10)
                ELSE ~ r.is_largest_1d_mover

(***************************************************************************)
(* C7: the 1-week flag is false below 26 observations and the 1-month flag *)
(* below 141; from its threshold on each detection is evaluated; the three *)
(* detections are gated independently, a short history disabling only the  *)
(* detections whose own threshold (11, 26, 141) is not met.                *)
(***************************************************************************)
C7_IndependentGates ==
    TableReturned =>
        \A r \in TableRows :
            LET v == RowSeries(r)
                L == Len(v)
            IN  /\ L < 26 => ~ r.is_largest_1w_mover
                /\ L < 141 => ~ r.is_largest_1m_mover
                /\ L >= 26 => (r.is_largest_1w_mover <=> IsWindowMax(v, 5, 20))
                /\ L >= 141 => (r.is_largest_1m_mover <=> IsWindowMax(v, 20, 120))
                /\ L >= 11 => (r.is_largest_1d_mover <=> IsWindowMax(v, 1, 10))

(***************************************************************************)
(* C9: compute_realized_vol emits an entry for a tenor iff the tenor has   *)
(* at least max(windows) = 180 rate observations at or before the          *)
(* as-of-date; at most one entry per tenor.                                *)
(***************************************************************************)
C9_RealizedEntryIffMaxWindow ==
    Called =>
        /\ \A t \in DOMAIN swap_rates :
              (\E r \in RealizedRows : r.tenor = t)
                  <=> ObsCount(swap_rates, t, as_of_date) >= 180
        /\ \A r \in RealizedRows : r.tenor \in DOMAIN swap_rates
        /\ \A i, j \in DOMAIN realized_df :
              realized_df[i].tenor = realized_df[j].tenor => i = j

C9_Witness ==
    /\ Called
    /\ \E t \in DOMAIN swap_rates :
          /\ ObsCount(swap_rates, t, as_of_date) = 180
          /\ \E r \in RealizedRows : r.tenor = t
    /\ \E t \in DOMAIN swap_rates :
          /\ ObsCount(swap_rates, t, as_of_date) = 179
          /\ ~ \E r \in RealizedRows : r.tenor = t

(***************************************************************************)
(* C10: a grid row whose tenor has no realized-vol entry is still emitted, *)
(* with every realized-vol field undefined and its implied fields as       *)
(* computed by compute_implied_vol_changes; also when no tenor has an      *)
(* entry.                                                                  *)
(***************************************************************************)
SameImplied(r, q) ==
    /\ KeyOf(r) = KeyOf(q)
    /\ r.implied_vol_ann_current = q.implied_vol_ann_current
    /\ r.implied_vol_ann_1d_chg = q.implied_vol_ann_1d_chg
    /\ r.implied_vol_ann_1w_chg = q.implied_vol_ann_1w_chg
    /\ r.implied_vol_ann_1m_chg = q.implied_vol_ann_1m_chg
    /\ r.implied_vol_ann_20d_high = q.implied_vol_ann_20d_high
    /\ r.implied_vol_ann_20d_low = q.implied_vol_ann_20d_low

C10_RowKeptWithoutRealized ==
    Called =>
        \A q \in ImpliedRows :
            (KeyOf(q) \in GridCells /\ ~ \E e \in RealizedRows : e.tenor = q.tenor)
            => /\ TableReturned
               /\ \E r \in TableRows :
                     /\ SameImplied(r, q)
                     /\ \A w \in DOMAIN r.realized_vol : r.realized_vol[w] = NaN

(***************************************************************************)
(* C2: no look-ahead.  When an implied or rate observation dated strictly  *)
(* after the as-of-date has been added, removed or altered, the call on    *)
(* the perturbed sets gives the outcome it gave before (rows, metrics,     *)
(* realized-vol fields and flags), and so do its two stages.               *)
(***************************************************************************)
FutureEdit == edit # NoEdit /\ edit.date > as_of_date

C2_NoLookAhead ==
    FutureEdit =>
        /\ build_swaption_vol_table(vol_data, swap_rates, as_of_date) = table
        /\ compute_implied_vol_changes(vol_data, as_of_date) = implied_df
        /\ compute_realized_vol(swap_rates, as_of_date, REALIZED_VOL_WINDOWS) = realized_df

\* an observation was added right after the as-of-date to the series of a
\* row of the table that carries a true flag
C2_Witness ==
    /\ FutureEdit
    /\ edit.kind = "vol"
    /\ edit.date = as_of_date + 1
    /\ vol_data[edit.key][edit.date] = <<90>>
    /\ TableReturned
    /\ \E r \in TableRows :
          /\ KeyOf(r) = edit.key
          /\ r.is_largest_1d_mover
          /\ r.realized_vol[180] # NaN

(***************************************************************************)
(* C8: the flags and implied metrics of an instrument's row depend on the  *)
(* instrument's own implied series only: after an implied observation of   *)
(* another key has been added, removed or altered (at, before or after the *)
(* as-of-date), the call on the perturbed set still returns that row       *)
(* unchanged.                                                              *)
(***************************************************************************)
C8_OwnSeriesOnly ==
    (edit.kind = "vol" /\ TableReturned) =>
        LET now == build_swaption_vol_table(vol_data, swap_rates, as_of_date)
        IN  \A r \in TableRows :
               KeyOf(r) # edit.key =>
                  /\ now.status = "returned"
                  /\ \E i \in DOMAIN now.rows : now.rows[i] = r

\* an observation of another in-grid key was changed at the as-of-date itself,
\* next to a row whose 1-day flag is true
C8_Witness ==
    /\ edit.kind = "vol"
    /\ edit.date = as_of_date
    /\ edit.key \in GridCells
    /\ TableReturned
    /\ \E r \in TableRows : KeyOf(r) = edit.key
    /\ \E r \in TableRows : KeyOf(r) # edit.key /\ r.is_largest_1d_mover

(***************************************************************************)
(* C13: when no implied series has at least 5 observations at or before    *)
(* the as-of-date, build_swaption_vol_table returns an empty table and     *)
(* does not raise.                                                         *)
(***************************************************************************)
C13_EmptyTableWhenNoSeries ==
    (/\ Called
     /\ \A k \in DOMAIN vol_data : ObsCount(vol_data, k, as_of_date) < 5)
        => TableReturned /\ table.rows = <<>>

(***************************************************************************)
(* C15: every row of the returned table has its expiry among 1M, 3M, 6M,   *)
(* 1Y, 2Y and its tenor among 2, 5, 10, 30; a key outside this grid never  *)
(* has a row, whatever the length of its history.                          *)
(***************************************************************************)
C15_RowsInGrid ==
    TableReturned =>
        \A r \in TableRows :
            /\ r.expiry \in {"1M", "3M", "6M", "1Y", "2Y"}
            /\ r.tenor \in {2, 5, 10, 30}

\* a table with rows is returned while a key with a foreign expiry and a key
\* with a foreign tenor both have long histories and implied metrics
C15_Witness ==
    /\ TableReturned
    /\ TableRows # {}
    /\ \E r \in ImpliedRows :
            r.expiry \notin Range(OPTION_TENORS) /\ r.implied_vol_ann_1m_chg # NaN
    /\ \E r \in ImpliedRows :
            r.tenor \notin Range(SWAP_TENORS) /\ r.implied_vol_ann_1m_chg # NaN

(***************************************************************************)
(* C16: the rows of the returned table are ordered by the position of the  *)
(* expiry in the list 1M, 3M, 6M, 1Y, 2Y and, within one expiry, by        *)
(* ascending tenor.                                                        *)
(***************************************************************************)
ConfiguredRank(e) ==
    CASE e = "1M" -> 1 [] e = "3M" -> 2 [] e = "6M" -> 3 [] e = "1Y" -> 4 [] e = "2Y" -> 5

C16_RowOrder ==
    TableReturned =>
        \A i, j \in DOMAIN table.rows :
            i < j =>
                \/ ConfiguredRank(table.rows[i].expiry) < ConfiguredRank(table.rows[j].expiry)
                \/ /\ table.rows[i].expiry = table.rows[j].expiry
                   /\ table.rows[i].tenor < table.rows[j].tenor

\* a table in which the configured order differs from the alphabetic one
\* (6M rows before the 1Y row) and one expiry has two tenors
C16_Witness ==
    /\ TableReturned
    /\ \E i, j \in DOMAIN table.rows :
            i < j /\ table.rows[i].expiry = "6M" /\ table.rows[j].expiry = "1Y"
    /\ \E i, j \in DOMAIN table.rows :
            i < j /\ table.rows[i].expiry = table.rows[j].expiry

(***************************************************************************)
(* C14: the join keeps every implied row exactly once (the rows before the *)
(* grid filter are the implied rows, in number and key), and two rows of   *)
(* the returned table with the same tenor carry the same realized-vol      *)
(* values.                                                                 *)
(***************************************************************************)
C14_LeftJoin ==
    TableReturned =>
        LET joined == MergeLeft(implied_df, realized_df)
        IN  /\ Len(joined) = Len(implied_df)
            /\ \A i \in DOMAIN joined : KeyOf(joined[i]) = KeyOf(implied_df[i])
            /\ \A r, q \in TableRows : r.tenor = q.tenor => r.realized_vol = q.realized_vol

\* a returned table with two expiries of one tenor that has realized values,
\* while an implied row has no realized entry for its tenor
C14_Witness ==
    /\ TableReturned
    /\ \E r, q \in TableRows :
            /\ r.tenor = q.tenor /\ r.expiry # q.expiry
            /\ r.realized_vol[180] # NaN
    /\ \E r \in ImpliedRows : \A e \in RealizedRows : e.tenor # r.tenor

(***************************************************************************)
(* C20: a returned table has the full fixed column set (expiry, tenor,     *)
(* term_tenor, six annualized and six daily implied columns, the six       *)
(* realized_vol columns and the three flags), each once, and every row has *)
(* a cell, possibly undefined, in every column.                            *)
(***************************************************************************)
FixedColumns ==
    {"expiry", "tenor", "term_tenor",
     "implied_vol_ann_current", "implied_vol_ann_1d_chg", "implied_vol_ann_1w_chg",
     "implied_vol_ann_1m_chg", "implied_vol_ann_20d_high", "implied_vol_ann_20d_low",
     "implied_vol_daily_current", "implied_vol_daily_1d_chg", "implied_vol_daily_1w_chg",
     "implied_vol_daily_1m_chg", "implied_vol_daily_20d_high", "implied_vol_daily_20d_low",
     "realized_vol_10d", "realized_vol_20d", "realized_vol_60d",
     "realized_vol_90d", "realized_vol_120d", "realized_vol_180d",
     "is_largest_1d_mover", "is_largest_1w_mover", "is_largest_1m_mover"}

\* the columns in which row r has a cell
CellsOf(r) ==
    ((DOMAIN r) \ {"realized_vol"}) \cup {WindowColumn(w) : w \in DOMAIN r.realized_vol}

C20_FixedColumns ==
    TableReturned =>
        /\ Range(table.columns) = FixedColumns
        /\ Len(table.columns) = Cardinality(FixedColumns)
        /\ \A r \in TableRows : CellsOf(r) = FixedColumns

\* a returned table where one row has no realized values (its tenor has too
\* little rate history) and one row has no one-month change
C20_Witness ==
    /\ TableReturned
    /\ \E r \in TableRows : \A w \in DOMAIN r.realized_vol : r.realized_vol[w] = NaN
    /\ \E r \in TableRows : r.implied_vol_ann_1m_chg = NaN

CachesLoaded == vol_data_cache # None /\ swap_rates_cache # None

\* d lies before every date, or after every date, of the loaded implied
\* observations
OutOfRange(d) ==
    LET vd == vol_data_cache[1]
    IN  \/ \A k \in DOMAIN vd, dt \in Dates : IsRow(vd[k][dt]) => d < dt
        \/ \A k \in DOMAIN vd, dt \in Dates : IsRow(vd[k][dt]) => d > dt

ValueErrors ==
    {"ValueError: No vol data loaded", "ValueError: No SOFR data loaded",
     "ValueError: Date is before earliest data", "ValueError: Date is after latest data"}

(***************************************************************************)
(* C11: for every as-of-date within the dates of the loaded observations,  *)
(* the earliest date included, get_swaption_table returns a table.         *)
(***************************************************************************)
C11_InRangeReturnsTable ==
    (/\ pc = "get_swaption_table"
     /\ CachesLoaded
     /\ ~OutOfRange(as_of_date))
        => TableReturned

(***************************************************************************)
(* C12: with the observations loaded, get_swaption_table(d) raises a       *)
(* ValueError iff d is before the earliest or after the latest date of the *)
(* loaded observations, and then nothing of the table has been computed.   *)
(***************************************************************************)
C12_DateRejection ==
    (pc = "get_swaption_table" /\ CachesLoaded) =>
        /\ (table.status = "raised" /\ table.error \in ValueErrors)
               <=> OutOfRange(as_of_date)
        /\ OutOfRange(as_of_date) =>
               table.rows = <<>> /\ implied_df = <<>> /\ realized_df = <<>>

\* a date after the latest loaded date was asked and rejected
C12_Witness ==
    /\ pc = "get_swaption_table"
    /\ CachesLoaded
    /\ as_of_date > MaxDate
    /\ table.status = "raised"

(***************************************************************************)
(* C19: once both caches are loaded, no call invokes the loaders or        *)
(* changes the cached sets, and get_swaption_table and                     *)
(* get_swaption_table_latest compute their outcome from the cached sets.   *)
(***************************************************************************)
C19_LoadOnce ==
    [][CachesLoaded =>
          /\ vol_data_cache' = vol_data_cache
          /\ swap_rates_cache' = swap_rates_cache
          /\ loader_calls' = loader_calls
          /\ (table = NoTable /\ table' # NoTable) =>
                table' = get_swaption_table(vol_data_cache[1], swap_rates_cache[1],
                                            as_of_date').table]_vars

\* a table was returned from caches that no longer equal what the loaders
\* would read now, after a first loading pass had failed
C19_Witness ==
    /\ CachesLoaded
    /\ pc = "get_swaption_table_latest"
    /\ TableReturned
    /\ vol_data_cache[1] # LoadedVol(vol_data)
    /\ loader_calls > 1

(***************************************************************************)
(* C25: after any sequence of _load_data calls, failing ones included, the *)
(* two caches are both unset or both set.                                  *)
(***************************************************************************)
C25_CachesConsistent ==
    (vol_data_cache = None) <=> (swap_rates_cache = None)

(***************************************************************************)
(* C26: whenever a mover detection is evaluated for a row, the row's own   *)
(* current absolute change is one of the absolute changes of the lookback  *)
(* window (so the window maximum is never below it), and the flag is true  *)
(* iff no change of the window is strictly larger than the current one.    *)
(***************************************************************************)
NoLargerInWindow(flag, chg, v, p, k) ==
    /\ chg # NaN
    /\ Abs(chg[1]) \in RefWindow(v, p, k)
    /\ flag <=> (\A x \in RefWindow(v, p, k) : ~(x > Abs(chg[1])))

C26_FlagIffNoLarger ==
    TableReturned =>
        \A r \in TableRows :
            LET v == RowSeries(r)
                L == Len(v)
            IN  L >= 21 =>
                  /\ L >= 11 => NoLargerInWindow(r.is_largest_1d_mover,
                                                 r.implied_vol_ann_1d_chg, v, 1, 10)
                  /\ L >= 26 => NoLargerInWindow(r.is_largest_1w_mover,
                                                 r.implied_vol_ann_1w_chg, v, 5, 20)
                  /\ L >= 141 => NoLargerInWindow(r.is_largest_1m_mover,
                                                  r.implied_vol_ann_1m_chg, v, 20, 120)

\* one row with an evaluated 1-week detection that is false (a larger change
\* lies in the window) while its 1-day flag is true with a non-zero change
C26_Witness ==
    /\ TableReturned
    /\ \E r \in TableRows :
          /\ Len(RowSeries(r)) >= 26
          /\ ~ r.is_largest_1w_mover
          /\ r.is_largest_1d_mover
          /\ r.implied_vol_ann_1d_chg # <<0>>

(***************************************************************************)
(* C27: every row of the returned table has                                *)
(* 20-period low <= current level <= 20-period high.                       *)
(***************************************************************************)
C27_CurrentWithinHighLow ==
    TableReturned =>
        \A r \in TableRows :
            /\ r.implied_vol_ann_20d_low[1] <= r.implied_vol_ann_current[1]
            /\ r.implied_vol_ann_current[1] <= r.implied_vol_ann_20d_high[1]

\* a row of a series longer than 20 whose current level is the high of the
\* window and above its low
C27_Witness ==
    /\ TableReturned
    /\ \E r \in TableRows :
          /\ Len(RowSeries(r)) > 20
          /\ r.implied_vol_ann_current = r.implied_vol_ann_20d_high
          /\ r.implied_vol_ann_20d_low[1] < r.implied_vol_ann_current[1]

(***************************************************************************)
(* C28: availability is monotone in the as-of-date on fixed observation    *)
(* sets: a key with an implied row at d has one at every later date, a     *)
(* tenor with a realized entry at d has one at every later date, and a     *)
(* 1-week or 1-month change defined at d is defined at every later date.   *)
(* Checked from each as-of-date to the next date and to the last date.     *)
(***************************************************************************)
AvailableAlsoAt(d2) ==
    LET implied2 == compute_implied_vol_changes(vol_data, d2)
        realized2 == compute_realized_vol(swap_rates, d2, REALIZED_VOL_WINDOWS)
    IN  /\ \A r \in ImpliedRows :
              \E i \in DOMAIN implied2 :
                  /\ KeyOf(implied2[i]) = KeyOf(r)
                  /\ r.implied_vol_ann_1w_chg # NaN => implied2[i].implied_vol_ann_1w_chg # NaN
                  /\ r.implied_vol_ann_1m_chg # NaN => implied2[i].implied_vol_ann_1m_chg # NaN
        /\ \A e \in RealizedRows :
              \E i \in DOMAIN realized2 : realized2[i].tenor = e.tenor

C28_AvailabilityMonotone ==
    (Called /\ as_of_date <= MaxDate) =>
        AvailableAlsoAt(as_of_date + 1) /\ AvailableAlsoAt(MaxDate)

\* a date before the last with an implied row whose 1-week change is defined
\* and whose 1-month change is not yet, and with a realized entry
C28_Witness ==
    /\ Called
    /\ as_of_date < MaxDate
    /\ \E r \in ImpliedRows :
          r.implied_vol_ann_1w_chg # NaN /\ r.implied_vol_ann_1m_chg = NaN
    /\ RealizedRows # {}

(***************************************************************************)
(* C29: every tenor compute_realized_vol emits has a defined realized-vol  *)
(* value for each of the windows 10, 20, 60, 90, 120, 180, also when it    *)
(* has exactly 180 observations.                                           *)
(***************************************************************************)
C29_EmittedWindowsDefined ==
    Called =>
        \A r \in RealizedRows :
            \A w \in {10, 20, 60, 90, 120, 180} : r.realized_vol[w] # NaN

\* an entry of a tenor with exactly 180 observations
C29_Witness ==
    /\ Called
    /\ \E r \in RealizedRows : ObsCount(swap_rates, r.tenor, as_of_date) = 180

(***************************************************************************)
(* Notions for the properties of the realized-vol functions.               *)
(***************************************************************************)
IsConstant(m) == Len(m) >= 1 /\ \A i \in DOMAIN m : m[i] = m[1]

AllPositive(m) == \A i \in DOMAIN m : m[i] > 0

\* the number of non-null differences among the trailing w positions of
\* the difference series of a history of n rates (the first one is null)
NonNullInWindow(n, w) ==
    IF n = 0 THEN 0 ELSE (IF n <= w THEN n - 1 ELSE w)

\* the bp differences of history m that lie in the trailing window w
WindowDiffs(m, w) ==
    LET c == NonNullInWindow(Len(m), w)
    IN  [k \in 1..c |-> (m[Len(m) - c + k] - m[Len(m) - c + k - 1]) * 100]

\* v is the sample standard deviation of xs (v^2 * den = num, ann apart)
IsStdOf(v, xs) ==
    /\ v.den = Len(xs) * (Len(xs) - 1)
    /\ v.num = Len(xs) * SumSqSeq(xs, 1, Len(xs)) - SumSeq(xs, 1, Len(xs)) * SumSeq(xs, 1, Len(xs))

\* value v for window w of history m is as specified: undefined exactly when
\* fewer than floor(w/2) non-null differences lie in the window, else their
\* standard deviation (compared for data in percent)
WindowValueAsSpecified(v, m, div, w) ==
    /\ v = NaN <=> NonNullInWindow(Len(m), w) < w \div 2
    /\ (v # NaN /\ div = 1) => IsStdOf(v[1], WindowDiffs(m, w))

(***************************************************************************)
(* C21: for a constant rate history every defined realized-vol value is 0, *)
(* in calculate_realized_vol (annualized or not) and in                    *)
(* compute_realized_vol (every window).                                    *)
(***************************************************************************)
C21_ConstantGivesZero ==
    /\ (calc.fn = "calculate_realized_vol" /\ IsConstant(calc.rates.m)) =>
          \A i \in DOMAIN calc.result :
              calc.result[i] # NaN => calc.result[i][1].num = 0
    /\ (calc.fn = "compute_realized_vol" /\ IsConstant(calc.rates.m)) =>
          \A i \in DOMAIN calc.result :
              \A w \in DOMAIN calc.result[i].realized_vol :
                  calc.result[i].realized_vol[w] # NaN
                      => calc.result[i].realized_vol[w][1].num = 0

\* calculate_realized_vol, not annualized, gave a defined value for a
\* constant history of the full length
C21_Witness ==
    /\ calc.fn = "calculate_realized_vol"
    /\ IsConstant(calc.rates.m)
    /\ Len(calc.rates.m) = MaxLen
    /\ ~ calc.annualize
    /\ calc.result[MaxLen] # NaN

(***************************************************************************)
(* C22: the value for window w at the most recent observation is the       *)
(* standard deviation of the non-null bp differences in the trailing w     *)
(* positions, and is undefined exactly when fewer than floor(w/2) of them  *)
(* are non-null, in calculate_realized_vol and in compute_realized_vol.    *)
(***************************************************************************)
C22_HalfWindowThreshold ==
    /\ (/\ calc.fn = "calculate_realized_vol"
        /\ AllPositive(calc.rates.m)
        /\ Len(calc.rates.m) >= 1) =>
          WindowValueAsSpecified(calc.result[Len(calc.rates.m)], calc.rates.m,
                                 calc.rates.div, calc.window)
    /\ calc.fn = "compute_realized_vol" =>
          \A i \in DOMAIN calc.result :
              \A w \in DOMAIN calc.result[i].realized_vol :
                  WindowValueAsSpecified(calc.result[i].realized_vol[w], calc.rates.m,
                                         calc.rates.div, w)

(***************************************************************************)
(* C23: the same rate history gives the same realized-vol values whether   *)
(* it is handed over in percent or in decimal, in calculate_realized_vol   *)
(* (with the unit declared) and in the realized-vol values the table is    *)
(* built from.                                                             *)
(***************************************************************************)
OtherUnit(rates) == [m |-> rates.m, div |-> IF rates.div = 1 THEN 100 ELSE 1]

C23_SameInEitherUnit ==
    /\ calc.fn = "calculate_realized_vol" =>
          calc.result = calculate_realized_vol(OtherUnit(calc.rates), calc.window,
                                               calc.annualize, ~ calc.rates_in_percent)
    /\ calc.fn = "compute_realized_vol" =>
          calc.result = ComputeOn(OtherUnit(calc.rates), calc.windows)

\* the two parts of C23 on their own
C23_CalculatePart ==
    calc.fn = "calculate_realized_vol" =>
        calc.result = calculate_realized_vol(OtherUnit(calc.rates), calc.window,
                                             calc.annualize, ~ calc.rates_in_percent)

C22_ComputePart ==
    calc.fn = "compute_realized_vol" =>
        \A i \in DOMAIN calc.result :
            \A w \in DOMAIN calc.result[i].realized_vol :
                WindowValueAsSpecified(calc.result[i].realized_vol[w], calc.rates.m,
                                       calc.rates.div, w)

(***************************************************************************)
(* C30: load_sofr_rates keeps dates and rates aligned: when the sheet has  *)
(* a row with a valid date and a numeric rate, the load returns, and the   *)
(* records returned are exactly the (date, rate) pairs of such rows, in    *)
(* ascending date; a row with a valid date and a missing or non-numeric    *)
(* rate is left out on its own.                                            *)
(***************************************************************************)
GoodRows(sheet) ==
    SelectSeq(sheet, LAMBDA row : row.date_val.kind = "date" /\ row.rate_val.kind = "num")

PairsOf(sheet) ==
    [i \in 1..Len(GoodRows(sheet)) |->
        [date |-> GoodRows(sheet)[i].date_val.v, rate |-> GoodRows(sheet)[i].rate_val.v]]

C30_RowsAligned ==
    (calc.fn = "load_sofr_rates" /\ Len(GoodRows(calc.sheet)) > 0) =>
        /\ calc.result.status = "returned"
        /\ calc.result.records = SortByDate(PairsOf(calc.sheet))

\* the part of C30 that holds: a load that returns pairs every date with
\* the rate of its own row
C30_ReturnedAligned ==
    (calc.fn = "load_sofr_rates" /\ calc.result.status = "returned") =>
        calc.result.records = SortByDate(PairsOf(calc.sheet))

(***************************************************************************)
(* C24: the table is the same for every order of the input rows: it is the *)
(* table of the observation sets whatever place a row has in its list,     *)
(* every series being formed from the rows of its own key in ascending     *)
(* date.                                                                   *)
(***************************************************************************)
C24_OrderInvariant ==
    calc.fn = "build_swaption_vol_table" =>
        calc.result = build_swaption_vol_table(RecordVolFrame(calc.u), RecordRateFrame,
                                               calc.as_of_date)

\* a table was built from lists back to front and dealt, and has a row with
\* a 1-month change, a 1-day change that is not 0, a flag and a realized vol
C24_Witness ==
    /\ calc.fn = "build_swaption_vol_table"
    /\ calc.order.rev /\ calc.order.split /\ calc.order.shift > 0
    /\ calc.result.status = "returned"
    /\ \E i \in DOMAIN calc.result.rows :
          LET r == calc.result.rows[i]
          IN  /\ r.implied_vol_ann_1m_chg # NaN
              /\ r.implied_vol_ann_1d_chg \notin {NaN, <<0>>}
              /\ r.is_largest_1d_mover
              /\ r.realized_vol[180] # NaN
====
